---- MODULE Spec2Model ----
(***************************************************************************)
(* A model of the prompt-template analysers:                               *)
(*   component_identification.py   detect_component_with_retry and the     *)
(*                                 response validator it relies on,        *)
(*   placeholder_identification.py identify_placeholders.                  *)
(* Text is a tuple of one-character strings, so that the string            *)
(* operations of the source (lower, split, float, SequenceMatcher) are     *)
(* computed rather than assumed.                                           *)
(***************************************************************************)
EXTENDS Integers, Sequences, FiniteSets, TLC

(***************************************************************************)
(* The state of one call of detect_component_with_retry or of              *)
(* identify_placeholders                                                   *)
(***************************************************************************)
VARIABLES
    pc,           \* "idle", "loop" (at the while test), "done" (returned or raised);
                  \* in identify_placeholders "ph_loop" (at the for) and "ph_done";
                  \* "applied" after a call of one of the helper functions
    max_retries,  \* the argument
    retries,      \* the retry counter
    response,     \* the local `response`: what component_detection returned last
    result,       \* the returned dict
    outcome,      \* "none", "returned" or the class of the exception raised to the caller
    calls,        \* external calls made by this call
    events,       \* this call's external calls and suspensions, in order
    last,         \* the latest attempt: how the external call ended, its failure text,
                  \* the exception that left component_detection, its suspensions
    unparseable_only,   \* every external call of this call returned unparseable text
    prompt_template,    \* the argument of identify_placeholders
    relative_positions, \* its local: the (placeholder, position) pairs
    classifications,    \* its local: the records made so far
    fn,           \* the helper function called on its own, "none" when none was
    args,         \* its arguments
    ret,          \* what it returned
    script,       \* what the external capability of a repeated classification
                  \* answers, call by call
    run,          \* 0, or the number of the run of a repeated classification
    first         \* what the first run of a repeated classification returned

comp_vars == <<max_retries, retries, response, result, last, unparseable_only>>

ph_vars == <<prompt_template, relative_positions, classifications>>

fn_vars == <<fn, args, ret>>

twice_vars == <<script, run, first>>

vars == <<pc, outcome, calls, events, comp_vars, ph_vars, fn_vars, twice_vars>>

(***************************************************************************)
(* Text helpers                                                            *)
(***************************************************************************)
UpperChars == <<"A","B","C","D","E","F","G","H","I","J","K","L","M","N","O","P","Q","R","S","T","U","V","W","X","Y","Z">>

LowerChars == <<"a","b","c","d","e","f","g","h","i","j","k","l","m","n","o","p","q","r","s","t","u","v","w","x","y","z">>

Digits == <<"0","1","2","3","4","5","6","7","8","9">>

\* str.lower() on one character
LowerChar(c) ==
    IF \E i \in DOMAIN UpperChars : UpperChars[i] = c
    THEN LowerChars[CHOOSE i \in DOMAIN UpperChars : UpperChars[i] = c]
    ELSE c

\* str.lower()
Lower(s) == [i \in DOMAIN s |-> LowerChar(s[i])]

\* s[i:] with a 1-based first index
Drop(s, i) == SubSeq(s, i, Len(s))

\* does s hold sub at (1-based) position i
OccursAt(s, sub, i) ==
    /\ i >= 1
    /\ i + Len(sub) - 1 <= Len(s)
    /\ \A k \in 1..Len(sub) : s[i + k - 1] = sub[k]

\* the `in` operator on str
Contains(s, sub) == \E i \in 1..(Len(s) + 1) : OccursAt(s, sub, i)

(***************************************************************************)
(* component_identification.py: the taxonomy                               *)
(***************************************************************************)
EXPECTED_COMPONENTS ==
    << <<"p","r","o","f","i","l","e","/","r","o","l","e">>,
       <<"d","i","r","e","c","t","i","v","e">>,
       <<"w","o","r","k","f","l","o","w","s">>,
       <<"c","o","n","t","e","x","t">>,
       <<"e","x","a","m","p","l","e","s">>,
       <<"o","u","t","p","u","t"," ","f","o","r","m","a","t","/","s","t","y","l","e">>,
       <<"c","o","n","s","t","r","a","i","n","t","s">>,
       <<"o","t","h","e","r","s">> >>

ExpectedSet == {EXPECTED_COMPONENTS[i] : i \in DOMAIN EXPECTED_COMPONENTS}

(***************************************************************************)
(* difflib.SequenceMatcher(None, a, b).ratio(), no junk (autojunk only     *)
(* acts on sequences of 200 elements or more).                             *)
(***************************************************************************)
RECURSIVE MatchLen(_, _, _, _, _, _)
\* length of the common run of a[i..ahi] and b[j..bhi] starting at i, j
MatchLen(a, b, i, j, ahi, bhi) ==
    IF i > ahi \/ j > bhi \/ a[i] # b[j] THEN 0
    ELSE 1 + MatchLen(a, b, i + 1, j + 1, ahi, bhi)

\* find_longest_match: the longest block, of those the one starting earliest
\* in a, of those the one starting earliest in b; <<i, j, k>>
FindLongestMatch(a, b, alo, ahi, blo, bhi) ==
    LET cand == {<<i, j>> : i \in alo..ahi, j \in blo..bhi}
        len(p) == MatchLen(a, b, p[1], p[2], ahi, bhi)
        best == IF cand = {} THEN 0
                ELSE CHOOSE k \in 0..(ahi - alo + 1) :
                        /\ \A p \in cand : len(p) <= k
                        /\ \E p \in cand : len(p) = k
    IN  IF best = 0 THEN <<alo, blo, 0>>
        ELSE LET tops == {p \in cand : len(p) = best}
                 i0 == CHOOSE i \in alo..ahi :
                          /\ \E p \in tops : p[1] = i
                          /\ \A p \in tops : p[1] >= i
                 j0 == CHOOSE j \in blo..bhi :
                          /\ <<i0, j>> \in tops
                          /\ \A p \in tops : p[1] = i0 => p[2] >= j
             IN <<i0, j0, best>>

RECURSIVE Matches(_, _, _, _, _, _)
\* get_matching_blocks: the total size of the matching blocks
Matches(a, b, alo, ahi, blo, bhi) ==
    IF alo > ahi \/ blo > bhi THEN 0
    ELSE LET m == FindLongestMatch(a, b, alo, ahi, blo, bhi)
         IN IF m[3] = 0 THEN 0
            ELSE m[3]
                 + Matches(a, b, alo, m[1] - 1, blo, m[2] - 1)
                 + Matches(a, b, m[1] + m[3], ahi, m[2] + m[3], bhi)

\* ratio() = 2.0 * matches / length as the fraction <<numerator, denominator>>;
\* 1.0 when both sequences are empty
Ratio(a, b) ==
    IF Len(a) + Len(b) = 0 THEN <<1, 1>>
    ELSE <<2 * Matches(a, b, 1, Len(a), 1, Len(b)), Len(a) + Len(b)>>

\* comparison of two fractions with positive denominators
FracGT(x, y) == x[1] * y[2] > y[1] * x[2]

FracGE(x, y) == x[1] * y[2] >= y[1] * x[2]

(***************************************************************************)
(* JSON.  A JSON text is abstracted to its syntax: kind "garbage" is text  *)
(* json.loads rejects, "array" is valid JSON that is no object, "object"   *)
(* carries its members in textual order (duplicate names included), each   *)
(* a name and a literal; "none" is the absent content (None).  A literal   *)
(* is a quoted string, a bare word (null, true, 5, NaN, ...), or a nested  *)
(* array or object.  A Python value is a type tag and its text; a dict is  *)
(* the sequence of its items in insertion order.                           *)
(***************************************************************************)
StrLit(s) == [tok |-> "string", s |-> s]

BareLit(s) == [tok |-> "bare", s |-> s]

ArrayLit == [tok |-> "array", s |-> <<>>]

ObjectLit == [tok |-> "object", s |-> <<>>]

PyStr(s) == [ty |-> "str", v |-> s]

PyNone == [ty |-> "none", v |-> <<"n","u","l","l">>]

IsDigits(s) == Len(s) > 0 /\ \A i \in DOMAIN s : \E d \in DOMAIN Digits : Digits[d] = s[i]

\* str.lower() on a JSON text: names, string contents and bare words alike
LowerText(text) ==
    [text EXCEPT !.pairs = [i \in DOMAIN text.pairs |->
        [key |-> Lower(text.pairs[i].key),
         val |-> [text.pairs[i].val EXCEPT !.s = Lower(@)]]]]

\* json.loads on one literal: <<ok, value>>
LoadLit(lit) ==
    CASE lit.tok = "string" -> <<TRUE, PyStr(lit.s)>>
      [] lit.tok = "array"  -> <<TRUE, [ty |-> "list", v |-> <<>>]>>
      [] lit.tok = "object" -> <<TRUE, [ty |-> "dict", v |-> <<>>]>>
      [] OTHER ->
            IF lit.s = <<"n","u","l","l">> THEN <<TRUE, PyNone>>
            ELSE IF lit.s \in {<<"t","r","u","e">>, <<"f","a","l","s","e">>}
                 THEN <<TRUE, [ty |-> "bool", v |-> lit.s]>>
            ELSE IF IsDigits(lit.s) THEN <<TRUE, [ty |-> "int", v |-> lit.s]>>
            ELSE IF lit.s \in {<<"N","a","N">>, <<"I","n","f","i","n","i","t","y">>}
                 THEN <<TRUE, [ty |-> "float", v |-> lit.s]>>
            ELSE <<FALSE, PyNone>>

RECURSIVE DictSet(_, _, _)
\* d[k] = v on a dict: a present key keeps its place and takes the new value
DictSet(d, k, v) ==
    IF d = <<>> THEN << <<k, v>> >>
    ELSE IF Head(d)[1] = k THEN << <<k, v>> >> \o Tail(d)
    ELSE <<Head(d)>> \o DictSet(Tail(d), k, v)

\* d.keys() in iteration order
DictKeys(d) == [i \in DOMAIN d |-> d[i][1]]

\* d[k] for a key the dict holds
DictGet(d, k) == d[CHOOSE i \in DOMAIN d : d[i][1] = k][2]

RECURSIVE LoadPairs(_, _)
LoadPairs(pairs, acc) ==
    IF pairs = <<>> THEN acc
    ELSE LoadPairs(Tail(pairs), DictSet(acc, Head(pairs).key, LoadLit(Head(pairs).val)[2]))

\* the text of the ValueError int() raises inside json.loads for an integer of
\* more digits than the interpreter converts (4300 by default, Python 3.11)
IntLimitMsg(digits) ==
    <<"E","x","c","e","e","d","s"," ","t","h","e"," ","l","i","m","i","t"," ","(","4","3","0","0"," ","d","i","g","i","t","s",")"," ","f","o","r"," ","i","n","t","e","g","e","r"," ","s","t","r","i","n","g"," ","c","o","n","v","e","r","s","i","o","n",":"," ","v","a","l","u","e"," ","h","a","s"," ">>
    \o digits \o
    <<" ","d","i","g","i","t","s",";"," ","u","s","e"," ","s","y","s",".","s","e","t","_","i","n","t","_","m","a","x","_","s","t","r","_","d","i","g","i","t","s","(",")"," ","t","o"," ","i","n","c","r","e","a","s","e"," ","t","h","e"," ","l","i","m","i","t">>

\* json.loads: exc is "none", "JSONDecodeError", or "ValueError" for a text of
\* kind "bigint" (JSON holding an integer of as many digits as its field digits
\* says, more than the interpreter converts); msg is the exception's text;
\* isdict tells an object from other JSON; items is the dict
Loads(text) ==
    IF text.kind = "garbage" \/ \E i \in DOMAIN text.pairs : ~LoadLit(text.pairs[i].val)[1]
    THEN [exc |-> "JSONDecodeError", msg |-> <<>>, isdict |-> FALSE, items |-> <<>>]
    ELSE IF text.kind = "bigint"
    THEN [exc |-> "ValueError", msg |-> IntLimitMsg(text.digits), isdict |-> FALSE, items |-> <<>>]
    ELSE IF text.kind = "array" THEN [exc |-> "none", msg |-> <<>>, isdict |-> FALSE, items |-> <<>>]
    ELSE [exc |-> "none", msg |-> <<>>, isdict |-> TRUE, items |-> LoadPairs(text.pairs, <<>>)]

\* json.dumps on one value
DumpLit(v) ==
    CASE v.ty = "str"  -> StrLit(v.v)
      [] v.ty = "list" -> ArrayLit
      [] v.ty = "dict" -> ObjectLit
      [] OTHER -> BareLit(v.v)

\* json.dumps on a dict
Dumps(d) ==
    [kind |-> "object", digits |-> <<>>,
     pairs |-> [i \in DOMAIN d |-> [key |-> d[i][1], val |-> DumpLit(d[i][2])]]]

(***************************************************************************)
(* component_identification.py: the validator                              *)
(***************************************************************************)
\* similarity_threshold = 0.7 as a fraction
ThresholdNum == 7

ThresholdDen == 10

similarity_threshold == <<ThresholdNum, ThresholdDen>>

get_default_response == Dumps([i \in DOMAIN EXPECTED_COMPONENTS |-> <<EXPECTED_COMPONENTS[i], PyStr(<<>>)>>])

\* member names of a raw response: an expected name in another case, a
\* misspelt one, a near miss of "others", and a name no component is close to
RawKeys ==
    { <<"D","i","r","e","c","t","i","v","e">>,
      <<"d","i","r","e","c","t","i","v","e","s">>,
      <<"o","t","h","e","r">>,
      <<"f","o","o">> }

\* SequenceMatcher(None, key, expected_module).ratio(): Ratio, computed once
\* for the names the model's responses hold
RatioMemo == [a \in {Lower(k) : k \in RawKeys} |-> [b \in ExpectedSet |-> Ratio(a, b)]]

Similarity(a, b) ==
    IF a \in DOMAIN RatioMemo /\ b \in ExpectedSet THEN RatioMemo[a][b] ELSE Ratio(a, b)

RECURSIVE BestMatchFromLast(_, _, _, _)
\* a loop that also replaces the best match on an equal score
BestMatchFromLast(keys, expected_module, best_match, best_ratio) ==
    IF keys = <<>> THEN <<best_match, best_ratio>>
    ELSE LET ratio == Similarity(Head(keys), expected_module)
         IN IF FracGE(ratio, best_ratio)
            THEN BestMatchFromLast(Tail(keys), expected_module, <<TRUE, Head(keys)>>, ratio)
            ELSE BestMatchFromLast(Tail(keys), expected_module, best_match, best_ratio)

RECURSIVE BestMatchFrom(_, _, _, _)
\* the loop of find_best_match over the remaining keys
BestMatchFrom(keys, expected_module, best_match, best_ratio) ==
    IF keys = <<>> THEN <<best_match, best_ratio>>
    ELSE LET ratio == Similarity(Head(keys), expected_module)
         IN IF FracGT(ratio, best_ratio)
            THEN BestMatchFrom(Tail(keys), expected_module, <<TRUE, Head(keys)>>, ratio)
            ELSE BestMatchFrom(Tail(keys), expected_module, best_match, best_ratio)

\* find_best_match: <<best_match, best_ratio>>, best_match being <<FALSE, _>>
\* for None and <<TRUE, key>> otherwise
find_best_match(keys, expected_module) ==
    BestMatchFrom(keys, expected_module, <<FALSE, <<>> >>, <<0, 1>>)

\* `if best_match`: None and the empty string are false
Truthy(best_match) == best_match[1] /\ best_match[2] # <<>>

\* a validator that also accepts a score equal to the threshold
CleanedValueAtThreshold(components, expected_component) ==
    LET m == find_best_match(DictKeys(components), expected_component)
    IN IF Truthy(m[1]) /\ FracGE(m[2], similarity_threshold)
       THEN DictGet(components, m[1][2])
       ELSE PyStr(<<>>)

\* the value validate_and_clean_response stores under one expected component
CleanedValue(components, expected_component) ==
    LET m == find_best_match(DictKeys(components), expected_component)
    IN IF Truthy(m[1]) /\ FracGT(m[2], similarity_threshold)
       THEN DictGet(components, m[1][2])
       ELSE PyStr(<<>>)

\* a validator that files a matched value under the raw key it matched
CleanedItemUnderRawKey(components, expected_component) ==
    LET m == find_best_match(DictKeys(components), expected_component)
    IN <<IF Truthy(m[1]) /\ FracGT(m[2], similarity_threshold) THEN m[1][2] ELSE expected_component,
         CleanedValue(components, expected_component)>>

\* the item validate_and_clean_response adds to cleaned_response (lines 143, 145)
CleanedItem(components, expected_component) ==
    <<expected_component, CleanedValue(components, expected_component)>>

AttrErrLower == <<"'","N","o","n","e","T","y","p","e","'"," ","o","b","j","e","c","t"," ","h","a","s"," ","n","o"," ","a","t","t","r","i","b","u","t","e"," ","'","l","o","w","e","r","'">>

AttrErrKeys == <<"'","l","i","s","t","'"," ","o","b","j","e","c","t"," ","h","a","s"," ","n","o"," ","a","t","t","r","i","b","u","t","e"," ","'","k","e","y","s","'">>

\* validate_and_clean_response: exc is the exception it lets through ("none"
\* when it returns), msg that exception's text, ret the string it returns
validate_and_clean_response(raw_response) ==
    IF raw_response.kind = "none"
    THEN [exc |-> "AttributeError", msg |-> AttrErrLower, ret |-> get_default_response]
    ELSE LET parsed == Loads(LowerText(raw_response))
         IN IF parsed.exc = "JSONDecodeError"
            THEN [exc |-> "none", msg |-> <<>>, ret |-> get_default_response]
            ELSE IF parsed.exc # "none"
            THEN [exc |-> parsed.exc, msg |-> parsed.msg, ret |-> get_default_response]
            ELSE IF ~parsed.isdict
            THEN [exc |-> "AttributeError", msg |-> AttrErrKeys, ret |-> get_default_response]
            ELSE [exc |-> "none", msg |-> <<>>,
                  ret |-> Dumps([i \in DOMAIN EXPECTED_COMPONENTS |->
                            CleanedItem(parsed.items, EXPECTED_COMPONENTS[i])])]

(***************************************************************************)
(* component_identification.py: the wait time of a rate-limit message      *)
(***************************************************************************)
\* s.split(sep)[-1] for a separator that cannot overlap itself (such as 'in '):
\* the text after the last occurrence of sep, all of s when there is none
SplitLast(s, sep) ==
    LET at == {i \in 1..Len(s) : OccursAt(s, sep, i)}
    IN IF at = {} THEN s
       ELSE Drop(s, (CHOOSE i \in at : \A j \in at : j <= i) + Len(sep))

\* s.split(c)[0]: the text before the first occurrence of character c
SplitFirst(s, c) ==
    IF \E i \in DOMAIN s : s[i] = c
    THEN SubSeq(s, 1, (CHOOSE i \in DOMAIN s : s[i] = c /\ \A j \in 1..(i - 1) : s[j] # c) - 1)
    ELSE s

\* str.strip() for the blank
Strip(s) ==
    LET solid == {i \in DOMAIN s : s[i] # " "}
    IN IF solid = {} THEN <<>>
       ELSE SubSeq(s, CHOOSE i \in solid : \A j \in solid : i <= j,
                      CHOOSE i \in solid : \A j \in solid : j <= i)

DigitVal(c) == (CHOOSE d \in DOMAIN Digits : Digits[d] = c) - 1

RECURSIVE ParseNat(_)
ParseNat(s) == IF s = <<>> THEN 0 ELSE 10 * ParseNat(SubSeq(s, 1, Len(s) - 1)) + DigitVal(s[Len(s)])

RECURSIVE Pow10(_)
Pow10(n) == IF n = 0 THEN 1 ELSE 10 * Pow10(n - 1)

\* float(s) for the forms [blank][sign](inf | infinity | nan | digits[.digits])
\* (exponents and digit-group underscores are not modelled): ok is FALSE for a
\* ValueError; the value is (-1 if neg) * num / den, kind num, inf or nan; a
\* number whose integer part has more than ten digits (above 2^63 nanoseconds
\* when read as seconds) is kept as kind huge without its digits
ParseFloat(s0) ==
    LET s    == Strip(s0)
        neg  == s # <<>> /\ Head(s) = "-"
        body == IF s # <<>> /\ Head(s) \in {"-", "+"} THEN Tail(s) ELSE s
        dots == {i \in DOMAIN body : body[i] = "."}
        int  == IF dots = {} THEN body ELSE SubSeq(body, 1, (CHOOSE i \in dots : TRUE) - 1)
        frac == IF dots = {} THEN <<>> ELSE Drop(body, (CHOOSE i \in dots : TRUE) + 1)
        bad  == [ok |-> FALSE, kind |-> "num", neg |-> FALSE, num |-> 0, den |-> 1]
    IN  IF Lower(body) \in {<<"i","n","f">>, <<"i","n","f","i","n","i","t","y">>}
        THEN [ok |-> TRUE, kind |-> "inf", neg |-> neg, num |-> 0, den |-> 1]
        ELSE IF Lower(body) = <<"n","a","n">>
        THEN [ok |-> TRUE, kind |-> "nan", neg |-> neg, num |-> 0, den |-> 1]
        ELSE IF /\ Cardinality(dots) <= 1
                /\ (int # <<>> \/ frac # <<>>)
                /\ (int = <<>> \/ IsDigits(int))
                /\ (frac = <<>> \/ IsDigits(frac))
        THEN IF Len(int) > 10
             THEN [ok |-> TRUE, kind |-> "huge", neg |-> neg, num |-> 1, den |-> 1]
             ELSE [ok |-> TRUE, kind |-> "num", neg |-> neg,
                   num |-> ParseNat(int \o frac), den |-> Pow10(Len(frac))]
        ELSE bad

\* time.sleep(w): "ok" when it suspends for w; "ValueError" for NaN and for a
\* negative number; "OverflowError" for a number beyond the platform's time
\* range (the infinite ones and the huge ones, of either sign)
Sleep(w) ==
    CASE w.kind = "nan" -> "ValueError"
      [] w.kind \in {"inf", "huge"} -> "OverflowError"
      [] w.neg /\ w.num > 0 -> "ValueError"
      [] OTHER -> "ok"

\* time.sleep(60)
FallbackWait == 60

RateLimit429 == <<"4","2","9">>

RateLimitText == <<"R","a","t","e"," ","l","i","m","i","t"," ","r","e","a","c","h","e","d">>

\* the test of line 114
IsRateLimit(error_message) ==
    Contains(error_message, RateLimit429) \/ Contains(error_message, RateLimitText)

\* line 116: float(error_message.split('in ')[-1].split('s')[0])
wait_time(error_message) ==
    ParseFloat(SplitFirst(SplitLast(error_message, <<"i","n"," ">>), "s"))

\* a suspension of num / den time units
Duration(num, den) == <<num, den>>

\* an inner handler that lets ValueError pass
InnerCaughtIndexOnly == {"IndexError"}

\* the exception classes the inner handler of line 119 catches
InnerCaught == {"IndexError", "ValueError"}

\* the except branch of component_detection (lines 112-123) for the failure
\* text error_message: the suspensions it makes, then its return value or the
\* exception that leaves it.  The call component_detection(prompt) of line 121
\* lacks two required arguments: it raises TypeError before its body runs.
HandleFailure(error_message) ==
    IF IsRateLimit(error_message)
    THEN LET w == wait_time(error_message)
             s == IF w.ok THEN Sleep(w) ELSE "ValueError"
         IN IF s = "ok"
            THEN [exc |-> "none", ret |-> get_default_response,
                  sleeps |-> <<Duration(w.num, w.den)>>]
            ELSE IF s \in InnerCaught
            THEN [exc |-> "TypeError", ret |-> get_default_response,
                  sleeps |-> <<Duration(FallbackWait, 1)>>]
            ELSE [exc |-> s, ret |-> get_default_response, sleeps |-> <<>>]
    ELSE [exc |-> "none", ret |-> get_default_response, sleeps |-> <<>>]

\* component_detection against one behaviour of the external capability:
\* ext.kind "ok" returns ext.content as the message content, "fail" raises an
\* exception whose text is ext.msg
component_detection(ext) ==
    IF ext.kind = "ok"
    THEN LET v == validate_and_clean_response(ext.content)
         IN IF v.exc = "none"
            THEN [exc |-> "none", ret |-> v.ret, sleeps |-> <<>>]
            ELSE HandleFailure(v.msg)
    ELSE HandleFailure(ext.msg)

(***************************************************************************)
(* The external capability: what one call of                               *)
(* client.chat.completions.create can do.                                  *)
(***************************************************************************)
\* the largest max_retries a caller passes
MaxMaxRetries == 3

\* the most members of a response object
MaxPairs == 2

NoText == [kind |-> "none", digits |-> <<>>, pairs |-> <<>>]

Garbage == [kind |-> "garbage", digits |-> <<>>, pairs |-> <<>>]

ArrayText == [kind |-> "array", digits |-> <<>>, pairs |-> <<>>]

\* JSON texts holding an integer of 4429 and of 5000 digits
BigIntTexts ==
    { [kind |-> "bigint", digits |-> <<"4","4","2","9">>, pairs |-> <<>>],
      [kind |-> "bigint", digits |-> <<"5","0","0","0">>, pairs |-> <<>>] }

\* member values of a raw response: the empty string, a string, null, a list
RawValues == { StrLit(<<>>), StrLit(<<"H","i">>), BareLit(<<"n","u","l","l">>), ArrayLit }

RawPairs == {[key |-> k, val |-> v] : k \in RawKeys, v \in RawValues}

RECURSIVE SeqsUpTo(_, _)
\* the sequences over S of length at most n
SeqsUpTo(S, n) ==
    IF n = 0 THEN {<<>>}
    ELSE LET shorter == SeqsUpTo(S, n - 1)
         IN shorter \cup {Append(q, x) : q \in {r \in shorter : Len(r) = n - 1}, x \in S}

RawObjects == {[kind |-> "object", digits |-> <<>>, pairs |-> ps] : ps \in SeqsUpTo(RawPairs, MaxPairs)}

Contents == {NoText, Garbage, ArrayText} \cup BigIntTexts \cup RawObjects

\* text json.loads rejects once lower-cased
Unparseable(content) ==
    content.kind # "none" /\ Loads(LowerText(content)).exc = "JSONDecodeError"

\* failure texts: rate-limit signals with a wait of 2, of 1.5, of -1, of inf,
\* of 99999999999, with none and with one float() rejects; other failures, one
\* with a wait
ErrorMessages ==
    { <<"4","2","9"," ","i","n"," ","2","s">>,
      <<"R","a","t","e"," ","l","i","m","i","t"," ","r","e","a","c","h","e","d",","," ","t","r","y"," ","a","g","a","i","n"," ","i","n"," ","1",".","5","s",".">>,
      <<"4","2","9"," ","i","n"," ","-","1","s">>,
      <<"4","2","9"," ","i","n"," ","i","n","f","s">>,
      <<"4","2","9"," ","i","n"," ","9","9","9","9","9","9","9","9","9","9","9","s">>,
      <<"R","a","t","e"," ","l","i","m","i","t"," ","r","e","a","c","h","e","d">>,
      <<"R","a","t","e"," ","l","i","m","i","t"," ","r","e","a","c","h","e","d"," ","i","n"," ","1","m","5","s">>,
      <<"C","o","n","n","e","c","t","i","o","n"," ","e","r","r","o","r",".">>,
      <<"r","e","t","r","y"," ","i","n"," ","2","s">> }

Behaviours ==
    {[kind |-> "ok", content |-> c, msg |-> <<>>] : c \in Contents}
    \cup {[kind |-> "fail", content |-> NoText, msg |-> m] : m \in ErrorMessages}

\* how the event log names one external call
CallEvent(ext) ==
    IF ext.kind = "ok" THEN "ok"
    ELSE IF IsRateLimit(ext.msg) THEN "rate_limit"
    ELSE "failure"

\* what one attempt can meet: the kind of the external call's end, its failure
\* text, the kind of text it answered, and what component_detection does with it
Attempts ==
    {[call |-> CallEvent(ext), msg |-> ext.msg, content |-> ext.content.kind,
      unparseable |-> ext.kind = "ok" /\ Unparseable(ext.content),
      out |-> component_detection(ext)] : ext \in Behaviours}

(***************************************************************************)
(* placeholder_identification.py: placeholders and their positions         *)
(***************************************************************************)
PLACEHOLDER_CATEGORIES ==
    << <<"U","s","e","r"," ","Q","u","e","s","t","i","o","n">>,
       <<"C","o","n","t","e","x","t","u","a","l"," ","I","n","f","o","r","m","a","t","i","o","n">>,
       <<"K","n","o","w","l","e","d","g","e"," ","I","n","p","u","t">>,
       <<"M","e","t","a","d","a","t","a","/","S","h","o","r","t"," ","P","h","r","a","s","e","s">>,
       <<"O","t","h","e","r","s">> >>

Others == <<"O","t","h","e","r","s">>

\* the literal alternative of the pattern of line 34
PLACEHOLDER == <<"P","L","A","C","E","H","O","L","D","E","R">>

Letters == {UpperChars[i] : i \in DOMAIN UpperChars} \cup {LowerChars[i] : i \in DOMAIN LowerChars}

\* \w on the model's characters
WordChars == Letters \cup {Digits[i] : i \in DOMAIN Digits} \cup {"_"}

\* the class [A-Za-z0-9_.$]
NameChars == WordChars \cup {".", "$"}

\* where the greedy run [A-Za-z0-9_.$]* that starts at i ends: the first
\* position at or after i that holds no name character
NameEnd(s, i) ==
    CHOOSE j \in i..(Len(s) + 1) :
        /\ j = Len(s) + 1 \/ s[j] \notin NameChars
        /\ \A k \in i..(j - 1) : s[k] \in NameChars

\* the length of the match of the pattern of line 34 at position i, 0 for no
\* match: the alternatives are tried in their order
PatternAt(s, i) ==
    LET double == NameEnd(s, i + 2)
        single == NameEnd(s, i + 1)
    IN IF /\ OccursAt(s, <<"{","{">>, i)
          /\ OccursAt(s, <<"}","}">>, double)
       THEN double + 2 - i
       ELSE IF /\ OccursAt(s, <<"{">>, i)
               /\ OccursAt(s, <<"}">>, single)
       THEN single + 1 - i
       ELSE IF OccursAt(s, PLACEHOLDER, i) THEN Len(PLACEHOLDER)
       ELSE 0

RECURSIVE FindAllFrom(_, _)
\* re.findall from position from on: the leftmost match, then the matches
\* after its end
FindAllFrom(s, from) ==
    LET at == {i \in from..Len(s) : PatternAt(s, i) > 0}
    IN IF at = {} THEN <<>>
       ELSE LET i == CHOOSE x \in at : \A y \in at : x <= y
            IN <<SubSeq(s, i, i + PatternAt(s, i) - 1)>> \o FindAllFrom(s, i + PatternAt(s, i))

detect_placeholder(s) == FindAllFrom(s, 1)

\* len(re.findall(r'\b\w+\b', s)): the number of maximal runs of word characters
WordCount(s) ==
    Cardinality({i \in DOMAIN s : s[i] \in WordChars /\ (i = 1 \/ s[i - 1] \notin WordChars)})

\* a search that reports the last match instead of the first
SearchStartLast(s, placeholder) ==
    LET at == {i \in 1..(Len(s) + 1) : OccursAt(s, placeholder, i)}
    IN IF at = {} THEN 0 ELSE CHOOSE x \in at : \A y \in at : x >= y

\* re.search(re.escape(placeholder), s).start(), counted from 1; 0 for no match
SearchStart(s, placeholder) ==
    LET at == {i \in 1..(Len(s) + 1) : OccursAt(s, placeholder, i)}
    IN IF at = {} THEN 0 ELSE CHOOSE x \in at : \A y \in at : x <= y

\* thirds taken by integer division
classify_relative_word_positionTruncating(word_position, total_words) ==
    IF word_position <= total_words \div 3 THEN "Beginning"
    ELSE IF word_position >= (total_words \div 3) * 2 THEN "End"
    ELSE "Middle"

\* classify_relative_word_position: for integers w and t the float tests
\* w <= t / 3 and w >= t / 3 * 2 decide as 3 * w <= t and 3 * w >= 2 * t do
\* (t / 3 is exact or no integer, and so is its double)
classify_relative_word_position(word_position, total_words) ==
    IF 3 * word_position <= total_words THEN "Beginning"
    ELSE IF 3 * word_position >= 2 * total_words THEN "End"
    ELSE "Middle"

RECURSIVE PositionsFrom(_, _, _)
\* the loop of lines 44-50 over the remaining placeholders
PositionsFrom(s, placeholders, total_words) ==
    IF placeholders = <<>> THEN <<>>
    ELSE LET placeholder == Head(placeholders)
             char_start == SearchStart(s, placeholder)
             rest == PositionsFrom(s, Tail(placeholders), total_words)
         IN IF char_start = 0 THEN rest
            ELSE << <<placeholder,
                      classify_relative_word_position(
                          WordCount(SubSeq(s, 1, char_start - 1)), total_words)>> >> \o rest

RECURSIVE PositionsOnce(_, _, _)
\* a position step that passes over a placeholder text it has met before
PositionsOnce(s, placeholders, seen) ==
    IF placeholders = <<>> THEN <<>>
    ELSE IF Head(placeholders) \in seen THEN PositionsOnce(s, Tail(placeholders), seen)
    ELSE PositionsFrom(s, <<Head(placeholders)>>, WordCount(s))
         \o PositionsOnce(s, Tail(placeholders), seen \cup {Head(placeholders)})

calculate_relative_word_positionsOnce(s, placeholders) == PositionsOnce(s, placeholders, {})

calculate_relative_word_positions(s, placeholders) ==
    PositionsFrom(s, placeholders, WordCount(s))

(***************************************************************************)
(* placeholder_identification.py: classify_placeholder_with_llm            *)
(***************************************************************************)
\* the printable characters in the order of their code points (without the
\* double quote, the backslash and the backquote)
AsciiChars == <<" ","!","#","$","%","&","'","(",")","*","+",",","-",".","/","0","1","2","3","4","5","6","7","8","9",":",";","<","=",">","?","@","A","B","C","D","E","F","G","H","I","J","K","L","M","N","O","P","Q","R","S","T","U","V","W","X","Y","Z","[","]","^","_","a","b","c","d","e","f","g","h","i","j","k","l","m","n","o","p","q","r","s","t","u","v","w","x","y","z","{","|","}","~">>

CharCode(c) == CHOOSE i \in DOMAIN AsciiChars : AsciiChars[i] = c

\* a < b on str
StrLess(a, b) ==
    \E i \in 1..(Len(a) + 1) :
        /\ \A k \in 1..(i - 1) : k <= Len(b) /\ a[k] = b[k]
        /\ i <= Len(b)
        /\ i > Len(a) \/ CharCode(a[i]) < CharCode(b[i])

\* cutoff=0.6 as a fraction
CutoffNum == 6

CutoffDen == 10

cutoff == <<CutoffNum, CutoffDen>>

\* a matcher that keeps the best possibility whatever its score
get_close_matchesNoCutoff(word, possibilities) ==
    LET score == [i \in DOMAIN possibilities |-> Ratio(possibilities[i], word)]
    IN <<possibilities[CHOOSE i \in DOMAIN possibilities : \A j \in DOMAIN possibilities :
             ~FracGT(score[j], score[i])]>>

\* difflib.get_close_matches(word, possibilities, n=1, cutoff): the
\* possibilities x with SequenceMatcher(None, x, word).ratio() >= cutoff (the
\* two quick ratios are upper bounds of it), of which nlargest keeps the
\* greatest (score, x)
get_close_matches(word, possibilities) ==
    LET score == [i \in DOMAIN possibilities |-> Ratio(possibilities[i], word)]
        close == {i \in DOMAIN possibilities : FracGE(score[i], cutoff)}
    IN IF close = {} THEN <<>>
       ELSE <<possibilities[CHOOSE i \in close : \A j \in close :
                  \/ j = i
                  \/ FracGT(score[i], score[j])
                  \/ ~FracGT(score[j], score[i]) /\ StrLess(possibilities[j], possibilities[i])]>>

\* a handler that lets the failures of the external call through
PlaceholderCaughtNarrow(exc) == exc = "AttributeError"

\* except Exception of line 98
PlaceholderCaught(exc) == exc \in {"Exception", "AttributeError"}

\* classify_placeholder_with_llm against one behaviour of the external
\* capability: ext.kind "ok" answers ext.text (None when ext.none), "fail"
\* raises an exception; exc is the exception that leaves the function
classify_placeholder_with_llm(ext) ==
    LET raised == IF ext.kind = "fail" THEN "Exception"
                  ELSE IF ext.none THEN "AttributeError"
                  ELSE "none"
        best_match == get_close_matches(Strip(ext.text), PLACEHOLDER_CATEGORIES)
    IN IF raised # "none"
       THEN IF PlaceholderCaught(raised) THEN [exc |-> "none", ret |-> Others]
            ELSE [exc |-> raised, ret |-> <<>>]
       ELSE IF best_match # <<>> THEN [exc |-> "none", ret |-> best_match[1]]
       ELSE [exc |-> "none", ret |-> Others]

\* the most tokens of a prompt template
MaxTokens == 3

\* what a prompt template is made of: a word, a double-brace placeholder, an
\* empty single-brace one, the literal
TemplateTokens ==
    { <<"a">>, <<"{","{","x","}","}">>, <<"{","}">>, PLACEHOLDER }

RECURSIVE JoinBlank(_)
\* ' '.join(tokens)
JoinBlank(tokens) ==
    IF tokens = <<>> THEN <<>>
    ELSE IF Len(tokens) = 1 THEN tokens[1]
    ELSE tokens[1] \o <<" ">> \o JoinBlank(Tail(tokens))

Templates == {JoinBlank(ts) : ts \in SeqsUpTo(TemplateTokens, MaxTokens)}

\* what the capability answers about a placeholder: a category, one in lower
\* case, one between blanks, a part of one, and texts close to none
Answers ==
    { <<"U","s","e","r"," ","Q","u","e","s","t","i","o","n">>,
      <<"u","s","e","r"," ","q","u","e","s","t","i","o","n">>,
      <<" ","O","t","h","e","r","s"," ">>,
      <<"K","n","o","w","l","e","d","g","e">>,
      <<"M","e","t","a","d","a","t","a">>,
      <<>> }

\* more answers, for classify_placeholder_with_llm called on its own: one at
\* the cutoff, the two other categories, one near two categories, and parts
MoreAnswers ==
    { <<"U","s","e","r"," ","Q","x">>,
      <<"C","o","n","t","e","x","t","u","a","l"," ","I","n","f","o","r","m","a","t","i","o","n">>,
      <<"M","e","t","a","d","a","t","a","/","S","h","o","r","t"," ","P","h","r","a","s","e","s">>,
      <<"K","n","o","w","l","e","d","g","e"," ","I","n","f","o","r","m","a","t","i","o","n">>,
      <<"I","n","p","u","t">>,
      <<"I","n","f","o","r","m","a","t","i","o","n">>,
      <<"U","s","e","r"," ","O","t","h","e","r","s">> }

PlaceholderBehaviours ==
    {[kind |-> "ok", none |-> FALSE, text |-> a, msg |-> <<>>] : a \in Answers}
    \cup {[kind |-> "ok", none |-> TRUE, text |-> <<>>, msg |-> <<>>]}
    \cup {[kind |-> "fail", none |-> FALSE, text |-> <<>>, msg |-> m] : m \in ErrorMessages}

\* what one classification can meet: the kind of the external call's end and
\* what classify_placeholder_with_llm does with it
Classifications ==
    {[call |-> CallEvent([kind |-> ext.kind, msg |-> ext.msg]),
      out |-> classify_placeholder_with_llm(ext)] : ext \in PlaceholderBehaviours}

(***************************************************************************)
(* component_identification.py: detect_component_with_retry                *)
(***************************************************************************)
\* the classes the handlers of lines 46 and 49 catch; every class of the model
\* derives from Exception
ExceptionClasses == {"JSONDecodeError", "TypeError", "AttributeError", "ValueError", "OverflowError", "IndexError"}

\* a loop with the handler of line 46 only
RetryCaughtNarrow(exc) == exc \in {"JSONDecodeError", "TypeError"}

RetryCaught(exc) == exc \in {"JSONDecodeError", "TypeError"} \/ exc \in ExceptionClasses

\* a loop body without the comparison of line 39
AttemptVerdictNoDefaultTest(out) ==
    IF out.exc # "none"
    THEN IF RetryCaught(out.exc) THEN "retry" ELSE "raise"
    ELSE LET components == Loads(out.ret)
         IN IF components.exc # "none"
            THEN IF RetryCaught(components.exc) THEN "retry" ELSE "raise"
            ELSE IF components.isdict THEN "return"
            ELSE "retry"

\* one pass of the loop body (lines 36-51) on what component_detection did:
\* "return", "retry" (retries += 1) or "raise"
AttemptVerdict(out) ==
    IF out.exc # "none"
    THEN IF RetryCaught(out.exc) THEN "retry" ELSE "raise"
    ELSE LET components == Loads(out.ret)
         IN IF components.exc # "none"
            THEN IF RetryCaught(components.exc) THEN "retry" ELSE "raise"
            ELSE IF out.ret = get_default_response THEN "retry"
            ELSE IF components.isdict THEN "return"
            ELSE "retry"

\* json.loads(get_default_response()) of line 52
DefaultMap == Loads(get_default_response).items

\* what one pass of the loop body can be: an attempt, the verdict of the loop
\* body on it, the dict of line 38 when it is returned, and the exception that
\* leaves the loop body when one does
Passes ==
    {[att |-> att,
      verdict |-> AttemptVerdict(att.out),
      components |-> IF AttemptVerdict(att.out) = "return"
                     THEN Loads(att.out.ret).items ELSE <<>>,
      raised |-> IF att.out.exc # "none" THEN att.out.exc ELSE Loads(att.out.ret).exc]
     : att \in Attempts}

NoAttempt == [call |-> "none", msg |-> <<>>, content |-> "none", exc |-> "none", sleeps |-> <<>>]

Init ==
    /\ pc = "idle"
    /\ max_retries = 0
    /\ retries = 0
    /\ response = NoText
    /\ result = <<>>
    /\ outcome = "none"
    /\ calls = 0
    /\ events = <<>>
    /\ last = NoAttempt
    /\ unparseable_only = TRUE
    /\ prompt_template = <<>>
    /\ relative_positions = <<>>
    /\ classifications = <<>>
    /\ fn = "none"
    /\ args = <<>>
    /\ ret = <<>>
    /\ script = <<>>
    /\ run = 0
    /\ first = <<>>

\* a call that takes over the retry counter it finds
StartKeepsRetries(mr) ==
    /\ pc = "idle"
    /\ pc' = "loop"
    /\ max_retries' = mr
    /\ UNCHANGED <<retries, response, result, outcome, calls, events, last, unparseable_only, ph_vars>>
    /\ UNCHANGED <<fn_vars, twice_vars>>

\* the call: lines 33-34
Start(mr) ==
    /\ pc = "idle"
    /\ pc' = "loop"
    /\ max_retries' = mr
    /\ retries' = 0
    /\ UNCHANGED <<response, result, outcome, calls, events, last, unparseable_only, ph_vars>>
    /\ UNCHANGED <<fn_vars, twice_vars>>

\* a while test that admits one pass more
LoopContinuesInclusive(r, mr) == r <= mr

\* the while test of line 35
LoopContinues(r, mr) == r < mr

\* a counter that also counts the pass that returns
NextRetriesAlways(verdict, r) == r + 1

\* a counter that advances by two
NextRetriesByTwo(verdict, r) == IF verdict = "retry" THEN r + 2 ELSE r

\* the retry counter after one pass: retries += 1 on every path that stays in the loop
NextRetries(verdict, r) == IF verdict = "retry" THEN r + 1 ELSE r

\* one pass of the while loop (lines 35-51) against one behaviour of the
\* external capability
Attempt(pass) ==
    /\ pc = "loop"
    /\ LoopContinues(retries, max_retries)
    /\ LET att == pass.att
           out == att.out
       IN /\ calls' = calls + 1
          /\ events' = events \o <<att.call>> \o [i \in DOMAIN out.sleeps |-> "sleep"]
          /\ last' = [call |-> att.call, msg |-> att.msg, content |-> att.content,
                       exc |-> out.exc, sleeps |-> out.sleeps]
          /\ unparseable_only' = (unparseable_only /\ att.unparseable)
          /\ response' = IF out.exc = "none" THEN out.ret ELSE response
          /\ retries' = NextRetries(pass.verdict, retries)
          /\ pc' = IF pass.verdict = "retry" THEN "loop" ELSE "done"
          /\ result' = IF pass.verdict = "return" THEN pass.components ELSE result
          /\ outcome' = CASE pass.verdict = "return" -> "returned"
                          [] pass.verdict = "raise" -> pass.raised
                          [] OTHER -> outcome
    /\ UNCHANGED <<max_retries, ph_vars, fn_vars, twice_vars>>

\* the loop ends: line 52
Exhausted ==
    /\ pc = "loop"
    /\ ~LoopContinues(retries, max_retries)
    /\ pc' = "done"
    /\ result' = DefaultMap
    /\ outcome' = "returned"
    /\ UNCHANGED <<max_retries, retries, response, calls, events, last, unparseable_only, ph_vars>>
    /\ UNCHANGED <<fn_vars, twice_vars>>

(***************************************************************************)
(* placeholder_identification.py: identify_placeholders                    *)
(***************************************************************************)
\* line 20 on each template
DetectedIn == [template \in Templates |-> detect_placeholder(template)]

\* lines 20-21 on each template
PositionsOf ==
    [template \in Templates |->
        calculate_relative_word_positions(template, detect_placeholder(template))]

\* the call: lines 20-22
Identify(template) ==
    /\ pc = "idle"
    /\ pc' = "ph_loop"
    /\ prompt_template' = template
    /\ relative_positions' = PositionsOf[template]
    /\ classifications' = <<>>
    /\ UNCHANGED <<outcome, calls, events, comp_vars, fn_vars, twice_vars>>

\* the record of line 26
Record(placeholder, category, position) ==
    [placeholder |-> placeholder, category |-> category, position |-> position]

\* a loop body that asks again for a placeholder whose external call failed
ClassifyWithRetry(cls) ==
    /\ pc = "ph_loop"
    /\ Len(classifications) < Len(relative_positions)
    /\ LET item == relative_positions[Len(classifications) + 1]
       IN /\ calls' = calls + 1
          /\ events' = Append(events, cls.call)
          /\ classifications' =
                IF cls.call = "ok"
                THEN Append(classifications, Record(item[1], cls.out.ret, item[2]))
                ELSE classifications
          /\ UNCHANGED <<pc, outcome>>
    /\ UNCHANGED <<prompt_template, relative_positions, comp_vars, fn_vars, twice_vars>>

\* one pass of the for loop (lines 24-26) against one behaviour of the
\* external capability
Classify(cls) ==
    /\ pc = "ph_loop"
    /\ Len(classifications) < Len(relative_positions)
    /\ LET item == relative_positions[Len(classifications) + 1]
       IN /\ calls' = calls + 1
          /\ events' = Append(events, cls.call)
          /\ IF cls.out.exc = "none"
             THEN /\ classifications' =
                        Append(classifications, Record(item[1], cls.out.ret, item[2]))
                  /\ UNCHANGED <<pc, outcome>>
             ELSE /\ pc' = "ph_done"
                  /\ outcome' = cls.out.exc
                  /\ UNCHANGED classifications
    /\ UNCHANGED <<prompt_template, relative_positions, comp_vars, fn_vars, twice_vars>>

\* the for loop ends: line 28
ReturnClassifications ==
    /\ pc = "ph_loop"
    /\ Len(classifications) = Len(relative_positions)
    /\ pc' = "ph_done"
    /\ outcome' = "returned"
    /\ UNCHANGED <<calls, events, comp_vars, ph_vars, fn_vars, twice_vars>>

(***************************************************************************)
(* The helper functions, each called on its own                            *)
(***************************************************************************)
\* a call f(a) that returns r
Apply(f, a, r) ==
    /\ pc = "idle"
    /\ pc' = "applied"
    /\ fn' = f
    /\ args' = a
    /\ ret' = r
    /\ UNCHANGED <<outcome, calls, events, comp_vars, ph_vars, twice_vars>>

\* the most words a template has in a call of classify_relative_word_position
MaxTotalWords == 9

\* a call of classify_relative_word_position
ClassifyPosition(word_position, total_words) ==
    Apply("classify_relative_word_position",
          [word_position |-> word_position, total_words |-> total_words],
          [position |-> classify_relative_word_position(word_position, total_words)])

\* the most keys a call of find_best_match is given
MaxKeys == 2

\* two keys equally close to "context"
TiedKeys ==
    { <<"c","o","n","t","e","x","t","1">>, <<"c","o","n","t","e","x","t","2">> }

\* the key lists find_best_match is called on: lower-cased member names
CandidateKeys == SeqsUpTo({Lower(k) : k \in RawKeys} \cup TiedKeys, MaxKeys)

\* find_best_match on each key list and expected component
BestMatches ==
    {[keys |-> keys, expected_module |-> expected_module,
      out |-> find_best_match(keys, expected_module)]
       : keys \in CandidateKeys, expected_module \in ExpectedSet}

\* a call of find_best_match
FindBestMatch(call) ==
    Apply("find_best_match", [keys |-> call.keys, expected_module |-> call.expected_module],
          [best_match |-> call.out[1], best_ratio |-> call.out[2]])

\* responses whose one member name scores exactly 0.7 against "directive"
\* (7 of the 20 characters of the two names match)
ThresholdContents ==
    { [kind |-> "object", digits |-> <<>>,
       pairs |-> << [key |-> k, val |-> StrLit(<<"H","i">>)] >>]
      : k \in { <<"d","i","r","e","c","t","i","o","n","a","l">>,
                <<"D","i","r","e","c","t","i","o","n","a","l">> } }

\* validate_and_clean_response on each response
Validations ==
    {[raw_response |-> raw_response, out |-> validate_and_clean_response(raw_response)]
       : raw_response \in Contents \cup ThresholdContents}

\* a call of validate_and_clean_response
Validate(call) == Apply("validate_and_clean_response", call.raw_response, call.out)

\* classify_placeholder_with_llm against one behaviour of the external capability
ClassifyAlone(ext) ==
    Apply("classify_placeholder_with_llm", ext, classify_placeholder_with_llm(ext))

\* the caller takes the result; the locals of the call are gone
Finish ==
    /\ pc \in {"done", "ph_done", "applied"}
    /\ pc' = "idle"
    /\ max_retries' = 0
    /\ retries' = 0
    /\ response' = NoText
    /\ result' = <<>>
    /\ outcome' = "none"
    /\ calls' = 0
    /\ events' = <<>>
    /\ last' = NoAttempt
    /\ unparseable_only' = TRUE
    /\ prompt_template' = <<>>
    /\ relative_positions' = <<>>
    /\ classifications' = <<>>
    /\ fn' = "none"
    /\ args' = <<>>
    /\ ret' = <<>>
    /\ UNCHANGED twice_vars

\* a test on pc stands before a quantifier over many inputs so that they are
\* drawn only where a call can start
Next ==
    \/ \E mr \in -1..MaxMaxRetries : Start(mr)
    \/ \E pass \in Passes : Attempt(pass)
    \/ Exhausted
    \/ pc = "idle" /\ \E template \in Templates : Identify(template)
    \/ \E cls \in Classifications : Classify(cls)
    \/ ReturnClassifications
    \/ \E ext \in PlaceholderBehaviours
              \cup {[kind |-> "ok", none |-> FALSE, text |-> a, msg |-> <<>>] : a \in MoreAnswers} :
          ClassifyAlone(ext)
    \/ pc = "idle" /\ \E total_words \in 0..MaxTotalWords : \E word_position \in 0..total_words :
           ClassifyPosition(word_position, total_words)
    \/ pc = "idle" /\ \E call \in BestMatches : FindBestMatch(call)
    \/ pc = "idle" /\ \E call \in Validations : Validate(call)
    \/ Finish

Spec == Init /\ [][Next]_vars

\* the steps of a call that is under way: the interpreter runs a started call
\* on, every external call returns or raises and every suspension is finite
Running ==
    \/ \E pass \in Passes : Attempt(pass)
    \/ Exhausted
    \/ \E cls \in Classifications : Classify(cls)
    \/ ReturnClassifications

FairSpec == Spec /\ WF_vars(Running)

(***************************************************************************)
(* Two calls in a row on one prompt, against an external capability that   *)
(* answers the n-th request of a call the same way in either call          *)
(***************************************************************************)
\* what the capability does with one request of a component call: it fails,
\* it reports a rate limit without a wait time, it answers a text that is no
\* JSON, it answers {"Directive": "Hi"}
ScriptAnswers == {"failure", "rate_limit", "garbage", "answer"}

\* the name ScriptAnswers gives the external behaviour a pass met
Answering(pass) ==
    CASE pass.att.msg = <<"C","o","n","n","e","c","t","i","o","n"," ","e","r","r","o","r",".">>
            -> "failure"
      [] pass.att.msg = RateLimitText -> "rate_limit"
      [] pass.att.content = "garbage" -> "garbage"
      [] pass.components = [DefaultMap EXCEPT ![2] = <<DefaultMap[2][1], PyStr(<<"h","i">>)>>]
            -> "answer"
      [] OTHER -> "other"

ScriptPasses == {pass \in Passes : Answering(pass) \in ScriptAnswers}

\* a classification that answers a category and one whose external call fails
ScriptClassifications ==
    { CHOOSE cls \in Classifications : cls.call = "ok" /\ cls.out.ret # Others,
      CHOOSE cls \in Classifications : cls.call = "failure" }

\* the sequences over S of length n
SeqsOfLen(S, n) == {q \in SeqsUpTo(S, n) : Len(q) = n}

\* a prompt together with what the capability does with the successive
\* requests of a call on it
Scripts ==
    {[kind |-> "component", mr |-> mr, passes |-> q, template |-> <<>>, cls |-> <<>>]
       : mr \in 0..MaxMaxRetries, q \in SeqsOfLen(ScriptAnswers, MaxMaxRetries)}
    \cup
    {[kind |-> "placeholder", mr |-> 0, passes |-> <<>>, template |-> t, cls |-> q]
       : t \in Templates, q \in SeqsOfLen({"ok", "failure"}, MaxTokens)}

\* the script's entry for the request a call makes next is answer
NextAnswerIs(answers, answer) ==
    calls + 1 \in DOMAIN answers /\ answers[calls + 1] = answer

\* the caller fixes the prompt and the capability's answers
Pick(sc) ==
    /\ pc = "idle"
    /\ script = <<>>
    /\ script' = sc
    /\ UNCHANGED <<pc, outcome, calls, events, comp_vars, ph_vars, fn_vars, run, first>>

\* what the caller gets from a call, and the external calls the call made
Returned ==
    [outcome |-> outcome, result |-> result, classifications |-> classifications,
     calls |-> calls]

\* the caller keeps what the first call gave and calls again; the names of the
\* first call still hold what it left in them
Again ==
    /\ pc \in {"done", "ph_done"}
    /\ run = 0
    /\ run' = 1
    /\ first' = Returned
    /\ pc' = "idle"
    /\ outcome' = "none"
    /\ calls' = 0
    /\ events' = <<>>
    /\ last' = NoAttempt
    /\ unparseable_only' = TRUE
    /\ UNCHANGED <<max_retries, retries, response, result, ph_vars, fn_vars, script>>

TwiceNext ==
    \/ script = <<>> /\ \E sc \in Scripts : Pick(sc)
    \/ script # <<>> /\ script.kind = "component" /\ Start(script.mr)
    \/ \E pass \in ScriptPasses :
          script # <<>> /\ NextAnswerIs(script.passes, Answering(pass)) /\ Attempt(pass)
    \/ Exhausted
    \/ script # <<>> /\ script.kind = "placeholder" /\ Identify(script.template)
    \/ \E cls \in ScriptClassifications :
          script # <<>> /\ NextAnswerIs(script.cls, cls.call) /\ Classify(cls)
    \/ ReturnClassifications
    \/ Again

TwiceSpec == Init /\ [][TwiceNext]_vars

(***************************************************************************)
(* Properties of detect_component_with_retry                               *)
(***************************************************************************)
Max0(n) == IF n > 0 THEN n ELSE 0

CallKinds == {"ok", "rate_limit", "failure"}

SomeEvent(kind) == \E i \in DOMAIN events : events[i] = kind

\* C1: whatever the external capability does on each attempt (an answer, a
\* rate-limit failure with or without a readable wait, another failure),
\* detect_component_with_retry raises nothing to its caller: it ends by
\* returning a map, and the map is the all-empty one when no attempt got an
\* answer.
C1_NeverRaises ==
    pc \in {"loop", "done"} =>
        /\ outcome \in {"none", "returned"}
        /\ pc = "done" =>
            /\ outcome = "returned"
            /\ Len(result) = Len(EXPECTED_COMPONENTS)
            /\ ~SomeEvent("ok") => result = DefaultMap

\* a call that met a plain failure and a suspension, whose last attempt left
\* component_detection with an OverflowError, and that returned the all-empty map
C1_Witness ==
    /\ pc = "done"
    /\ calls = 3
    /\ SomeEvent("failure") /\ SomeEvent("sleep") /\ ~SomeEvent("ok")
    /\ last.exc = "OverflowError"
    /\ outcome = "returned"
    /\ result = DefaultMap

\* C2: when every external call answers unparseable text, the capability is
\* called exactly max_retries times, the default-empty map is returned, and no
\* further call can follow.
C2_ExactlyMaxRetriesCalls ==
    pc = "done" /\ unparseable_only /\ max_retries >= 0 =>
        /\ calls = max_retries
        /\ outcome = "returned"
        /\ result = DefaultMap
        /\ ~ENABLED (\E pass \in Passes : Attempt(pass))

\* three unparseable answers under max_retries = 3
C2_Witness ==
    /\ pc = "done"
    /\ unparseable_only
    /\ max_retries = 3
    /\ events = <<"ok", "ok", "ok">>

\* C3: when attempt k (1 <= k <= max_retries) is the first to yield a map that
\* is not the default-empty one, the call returns that attempt's validated map
\* at once: k - 1 retries were counted, the capability was called k times and
\* no call follows.
C3_ReturnsAtFirstSuccess ==
    /\ pc \in {"loop", "done"}
    /\ calls > 0
    /\ last.exc = "none"
    /\ response # get_default_response
    /\ Loads(response).isdict
    => /\ pc = "done"
       /\ outcome = "returned"
       /\ result = Loads(response).items
       /\ calls = retries + 1
       /\ calls <= max_retries
       /\ ~ENABLED (\E pass \in Passes : Attempt(pass))

\* success at the third and last allowed attempt
C3_Witness ==
    /\ pc = "done"
    /\ max_retries = 3
    /\ retries = 2
    /\ calls = 3
    /\ result # DefaultMap
    /\ result = Loads(response).items

\* C4: a call terminates; it makes at most max_retries external calls (none
\* when max_retries <= 0); every pass of the loop either returns or adds
\* exactly one to the retry counter.
C4_TerminatesWithinMaxRetries ==
    /\ [](pc \in {"loop", "done"} => calls <= Max0(max_retries))
    /\ [][pc = "loop" /\ calls' # calls =>
            \/ pc' = "done" /\ outcome' = "returned" /\ retries' = retries
            \/ pc' = "loop" /\ retries' = retries + 1]_vars
    /\ (pc = "loop" ~> pc = "done")

\* a call that used all its three attempts, one of them with a suspension
C4_Witness ==
    /\ pc = "done"
    /\ max_retries = 3
    /\ calls = 3
    /\ retries = 3
    /\ SomeEvent("sleep")

\* C5: an attempt whose validated result equals the default-empty map is not
\* returned: it adds one to the retry counter and the loop goes on.  So the
\* all-empty map is returned only when the loop has run out, after
\* max_retries unsuccessful attempts.
C5_DefaultIsNeverSuccess ==
    /\ [](pc = "done" /\ result = DefaultMap =>
            /\ ~LoopContinues(retries, max_retries)
            /\ calls = retries
            /\ calls = Max0(max_retries))
    /\ [][/\ pc = "loop"
          /\ calls' = calls + 1
          /\ last'.exc = "none"
          /\ response' = get_default_response
          => retries' = retries + 1 /\ pc' = "loop"]_vars

\* the second and last allowed attempt answered a JSON object whose validated
\* form is the default-empty map; the call ended with the all-empty map
C5_Witness ==
    /\ pc = "done"
    /\ max_retries = 2
    /\ retries = 2
    /\ last.call = "ok" /\ last.content = "object" /\ last.exc = "none"
    /\ response = get_default_response
    /\ result = DefaultMap

\* C6: every returned map has exactly the 8 expected keys, each once,
\* whatever keys the raw answer had.
C6_ExactlyExpectedKeys ==
    pc = "done" =>
        /\ {result[i][1] : i \in DOMAIN result} = ExpectedSet
        /\ Len(result) = Cardinality(ExpectedSet)

\* a returned map whose "others" holds a value: the raw answer had it under
\* the misspelt key "other"
C6_Witness ==
    /\ pc = "done"
    /\ \E i \in DOMAIN result :
          result[i] = <<EXPECTED_COMPONENTS[8], PyStr(<<"h","i">>)>>

\* C7: every value of the returned map is a plain string, never null and
\* never of another type.
C7_ValuesArePlainStrings ==
    pc = "done" => \A i \in DOMAIN result : result[i][2].ty = "str"

\* C8: after a failed external call, a rate-limit signal whose wait reads as a
\* number suspends the attempt once, for exactly that wait when it is a
\* non-negative number; a rate-limit signal whose wait does not read as a
\* number suspends it for the fallback of 60; any other failure suspends
\* nothing.
C8_SuspensionMatchesFailure ==
    pc \in {"loop", "done"} /\ calls > 0 =>
        LET w == wait_time(last.msg)
        IN /\ last.call = "rate_limit" /\ w.ok => Len(last.sleeps) = 1
           /\ last.call = "rate_limit" /\ w.ok /\ w.kind = "num" /\ ~w.neg =>
                 last.sleeps = <<Duration(w.num, w.den)>>
           /\ last.call = "rate_limit" /\ ~w.ok =>
                 last.sleeps = <<Duration(FallbackWait, 1)>>
           /\ last.call = "failure" => last.sleeps = <<>>

\* C9: every suspension comes directly after an external call that failed
\* with a rate-limit signal, and once the call has returned every suspension
\* has been followed by another external call.
C9_SuspensionOnlyBeforeRetry ==
    pc \in {"loop", "done"} =>
        \A i \in DOMAIN events : events[i] = "sleep" =>
            /\ i > 1 /\ events[i - 1] = "rate_limit"
            /\ pc = "done" => \E j \in (i + 1)..Len(events) : events[j] \in CallKinds

(***************************************************************************)
(* Properties of identify_placeholders                                     *)
(***************************************************************************)
\* C10: a failed external call for one placeholder (a rate-limit signal
\* included) raises nothing and does not stop the batch: that placeholder's
\* record has the category Others, every placeholder gets a record, and each
\* record has its own external call.
C10_BatchSurvivesFailure ==
    pc \in {"ph_loop", "ph_done"} =>
        /\ outcome \in {"none", "returned"}
        /\ calls = Len(classifications)
        /\ Len(events) = Len(classifications)
        /\ \A i \in DOMAIN classifications :
              /\ classifications[i].placeholder = relative_positions[i][1]
              /\ events[i] # "ok" => classifications[i].category = Others
        /\ pc = "ph_done" =>
              /\ outcome = "returned"
              /\ Len(classifications) = Len(relative_positions)

\* a batch of three: a rate-limit failure, another failure, then an answer
\* that names a category
C10_Witness ==
    /\ pc = "ph_done"
    /\ events = <<"rate_limit", "failure", "ok">>
    /\ Len(classifications) = 3
    /\ classifications[1].category = Others
    /\ classifications[2].category = Others
    /\ classifications[3].category = PLACEHOLDER_CATEGORIES[1]

\* C11: identify_placeholders calls the external capability once for every
\* record it emits, one placeholder after the other in detection order, and
\* never again for the same placeholder, whether the call failed or not.
C11_OneCallPerRecord ==
    [][pc = "ph_loop" =>
        \/ /\ pc' = "ph_loop"
           /\ calls' = calls + 1
           /\ Len(events') = Len(events) + 1
           /\ classifications' # classifications
           /\ SubSeq(classifications', 1, Len(classifications)) = classifications
           /\ Len(classifications') = calls'
           /\ classifications'[calls'].placeholder = relative_positions[calls'][1]
        \/ /\ pc' = "ph_done"
           /\ calls' = calls
           /\ calls = Len(relative_positions)
           /\ classifications' = classifications]_vars

\* a batch of three whose first and last calls failed: three calls, three records
C11_Witness ==
    /\ pc = "ph_done"
    /\ events = <<"failure", "ok", "rate_limit">>
    /\ calls = 3
    /\ Len(classifications) = 3
    /\ classifications[2].category = Others

PlaceholderCategorySet == {PLACEHOLDER_CATEGORIES[i] : i \in DOMAIN PLACEHOLDER_CATEGORIES}

\* no category scores at least the cutoff against the answer text
NoCloseCategory(text) ==
    \A i \in DOMAIN PLACEHOLDER_CATEGORIES :
        ~FracGE(Ratio(PLACEHOLDER_CATEGORIES[i], Strip(text)), cutoff)

\* C12: the category of every record is one of the 5 labels; whatever the
\* capability answers, classify_placeholder_with_llm returns one of them, and
\* it returns Others when the call fails and when no label reaches the cutoff.
C12_CategoryIsALabel ==
    /\ \A i \in DOMAIN classifications :
          classifications[i].category \in PlaceholderCategorySet
    /\ fn = "classify_placeholder_with_llm" =>
          /\ ret.exc = "none"
          /\ ret.ret \in PlaceholderCategorySet
          /\ args.kind = "fail" \/ args.none \/ NoCloseCategory(args.text) => ret.ret = Others

\* an answer that is a part of a label and reaches no cutoff
C12_Witness ==
    /\ fn = "classify_placeholder_with_llm"
    /\ args.kind = "ok"
    /\ args.text = <<"M","e","t","a","d","a","t","a">>
    /\ ret.ret = Others

\* C13: identify_placeholders emits one record for every occurrence that
\* detect_placeholder finds in the template, in the order of detection: the
\* position step drops none, and a text that occurs twice has two records.
C13_OneRecordPerOccurrence ==
    /\ pc \in {"ph_loop", "ph_done"} =>
          /\ Len(relative_positions) = Len(DetectedIn[prompt_template])
          /\ \A i \in DOMAIN relative_positions :
                relative_positions[i][1] = DetectedIn[prompt_template][i]
          /\ \A i \in DOMAIN classifications :
                classifications[i].placeholder = DetectedIn[prompt_template][i]
    /\ pc = "ph_done" => Len(classifications) = Len(DetectedIn[prompt_template])

\* the template "{{x}} a {{x}}" gave two records for {{x}}
C13_Witness ==
    /\ pc = "ph_done"
    /\ prompt_template = <<"{","{","x","}","}"," ","a"," ","{","{","x","}","}">>
    /\ Len(classifications) = 2
    /\ classifications[1].placeholder = <<"{","{","x","}","}">>
    /\ classifications[2].placeholder = <<"{","{","x","}","}">>

\* C20: the position label of a record is the third of the template in which
\* the record's placeholder text occurs for the FIRST time, so two records
\* with the same placeholder text carry the same label wherever the second
\* occurrence lies.
C20_LabelOfFirstOccurrence ==
    pc \in {"ph_loop", "ph_done"} =>
        /\ \A i \in DOMAIN classifications :
              \E at \in 1..Len(prompt_template) :
                  /\ OccursAt(prompt_template, classifications[i].placeholder, at)
                  /\ \A before \in 1..(at - 1) :
                        ~OccursAt(prompt_template, classifications[i].placeholder, before)
                  /\ classifications[i].position =
                        classify_relative_word_position(
                            WordCount(SubSeq(prompt_template, 1, at - 1)),
                            WordCount(prompt_template))
        /\ \A i, j \in DOMAIN classifications :
              classifications[i].placeholder = classifications[j].placeholder
                  => classifications[i].position = classifications[j].position

\* in "{{x}} a {{x}}" the second {{x}} stands in the last third (2 of 3 words
\* before it) and both records say Beginning
C20_Witness ==
    /\ pc = "ph_done"
    /\ prompt_template = <<"{","{","x","}","}"," ","a"," ","{","{","x","}","}">>
    /\ Len(classifications) = 2
    /\ classify_relative_word_position(2, WordCount(prompt_template)) = "End"
    /\ classifications[1].position = "Beginning"
    /\ classifications[2].position = "Beginning"

\* C19: a pass whose external call fails with a rate-limit text whose wait
\* time does not parse makes one suspension, of the fallback length, and one
\* external call only (the self-call of line 121 raises before it reaches the
\* capability); the orchestrator counts it as one failed pass (retries + 1)
\* and stays in its loop.
C19_UnparsedWaitIsOneFailedPass ==
    [][(pc = "loop" /\ calls' # calls
          /\ last'.call = "rate_limit" /\ ~wait_time(last'.msg).ok)
       => /\ last'.sleeps = <<Duration(FallbackWait, 1)>>
          /\ events' = events \o <<"rate_limit", "sleep">>
          /\ calls' = calls + 1
          /\ last'.exc = "TypeError"
          /\ retries' = retries + 1
          /\ pc' = "loop"
          /\ outcome' = outcome
          /\ result' = result
          /\ max_retries' = max_retries]_vars

\* "Rate limit reached in 1m5s" was met on the first of three passes and a
\* second pass followed it
C19_Witness ==
    /\ pc = "loop"
    /\ max_retries = 3
    /\ retries = 2
    /\ calls = 2
    /\ SubSeq(events, 1, 2) = <<"rate_limit", "sleep">>
    /\ last.call = "rate_limit"
    /\ ~wait_time(last.msg).ok
    /\ last.sleeps = <<Duration(FallbackWait, 1)>>

\* C17: for integers 0 <= w <= t, classify_relative_word_position(w, t)
\* returns one of the three labels, decided on exact thirds: Beginning iff
\* 3w <= t, End iff 3w > t and 3w >= 2t, Middle otherwise; where both bounds
\* hold (t = 0) it is Beginning.
C17_ExactThirds ==
    (pc = "applied" /\ fn = "classify_relative_word_position") =>
        LET w == args.word_position
            t == args.total_words
        IN /\ ret.position \in {"Beginning", "Middle", "End"}
           /\ ret.position = "Beginning" <=> 3 * w <= t
           /\ ret.position = "End" <=> (3 * w > t /\ 3 * w >= 2 * t)
           /\ ret.position = "Middle" <=> (3 * w > t /\ 3 * w < 2 * t)

\* w = 2 of t = 4 is Middle on exact thirds (6 > 4, 6 < 8), and End were the
\* third truncated to 1
C17_Witness ==
    /\ pc = "applied"
    /\ fn = "classify_relative_word_position"
    /\ args = [word_position |-> 2, total_words |-> 4]
    /\ ret = [position |-> "Middle"]

\* the template of n words "a" with {{x}} after the k-th of them
WordTemplate(n, k) ==
    JoinBlank([i \in 1..(n + 1) |-> IF i = k + 1 THEN <<"{","{","x","}","}">> ELSE <<"a">>])

\* the label of exact thirds of n for k words before the placeholder
ThirdOf(k, n) ==
    IF 3 * k <= n THEN "Beginning" ELSE IF 3 * k >= 2 * n THEN "End" ELSE "Middle"

\* C16: for a template of n plain words with one {{x}} after the k-th word,
\* the position step labels {{x}} by comparing k with the thirds of n, the
\* number of words around the placeholder: Beginning iff k <= n/3, else End
\* iff k >= 2n/3, else Middle.
C16_ThirdsOfSurroundingWords ==
    \A n \in 0..(MaxTokens - 1) : \A k \in 0..n :
        (pc \in {"ph_loop", "ph_done"} /\ prompt_template = WordTemplate(n, k))
            => relative_positions = << << <<"{","{","x","}","}">>, ThirdOf(k, n) >> >>

\* the first place in keys whose score against expected_module no other
\* place exceeds
FirstBest(keys, expected_module) ==
    CHOOSE i \in DOMAIN keys :
        /\ \A j \in DOMAIN keys :
              FracGE(Similarity(keys[i], expected_module), Similarity(keys[j], expected_module))
        /\ \A j \in 1..(i - 1) :
              FracGT(Similarity(keys[i], expected_module), Similarity(keys[j], expected_module))

\* C18 as stated: find_best_match returns the candidate key of the highest
\* score with that score, the first such key in iteration order; for no
\* candidate at all it returns (None, 0.0).
C18_FirstOfHighestScore ==
    (pc = "applied" /\ fn = "find_best_match") =>
        LET keys == args.keys
            expected_module == args.expected_module
        IN IF keys = <<>> THEN ret = [best_match |-> <<FALSE, <<>> >>, best_ratio |-> <<0, 1>>]
           ELSE /\ ret.best_match = <<TRUE, keys[FirstBest(keys, expected_module)]>>
                /\ ret.best_ratio = Similarity(keys[FirstBest(keys, expected_module)], expected_module)

\* C18 amended: find_best_match returns the first key of the highest score,
\* with that score, when that score is above 0; for no candidate, and for
\* candidates that all score 0, it returns (None, 0.0).
C18_FirstOfHighestPositiveScore ==
    (pc = "applied" /\ fn = "find_best_match") =>
        LET keys == args.keys
            expected_module == args.expected_module
        IN IF \/ keys = <<>>
              \/ \A i \in DOMAIN keys : ~FracGT(Similarity(keys[i], expected_module), <<0, 1>>)
           THEN ret = [best_match |-> <<FALSE, <<>> >>, best_ratio |-> <<0, 1>>]
           ELSE /\ ret.best_match = <<TRUE, keys[FirstBest(keys, expected_module)]>>
                /\ ret.best_ratio = Similarity(keys[FirstBest(keys, expected_module)], expected_module)

\* "context1" and "context2" are equally close to "context" (14/15) and the
\* first of them was returned
C18_Witness ==
    /\ pc = "applied"
    /\ fn = "find_best_match"
    /\ args.keys = << <<"c","o","n","t","e","x","t","2">>, <<"c","o","n","t","e","x","t","1">> >>
    /\ args.expected_module = <<"c","o","n","t","e","x","t">>
    /\ Similarity(args.keys[1], args.expected_module)
          = Similarity(args.keys[2], args.expected_module)
    /\ ret.best_match = <<TRUE, <<"c","o","n","t","e","x","t","2">> >>
    /\ FracGE(ret.best_ratio, <<14, 15>>) /\ FracGE(<<14, 15>>, ret.best_ratio)

\* the value C15 gives an expected label over the parsed members
ValueByBestKey(components, expected_component) ==
    LET keys == DictKeys(components)
    IN IF keys = <<>> THEN PyStr(<<>>)
       ELSE LET best == keys[FirstBest(keys, expected_component)]
            IN IF FracGT(Similarity(best, expected_component), similarity_threshold)
               THEN DictGet(components, best)
               ELSE PyStr(<<>>)

C14_SecondCallAgrees ==
    run = 1 =>
        /\ pc = "loop" => retries = calls
        /\ pc = "ph_loop" => Len(classifications) = calls
        /\ pc \in {"done", "ph_done"} => Returned = first

\* the first call failed twice and returned the third answer, leaving
\* retries = 2; the second call did the same
C14_Witness ==
    /\ run = 1
    /\ pc = "done"
    /\ script.kind = "component"
    /\ max_retries = 3
    /\ first.calls = 3
    /\ calls = 3
    /\ retries = 2
    /\ outcome = "returned"
    /\ result # DefaultMap
    /\ result = first.result

====
